---- MODULE Spec2Model ----
(***************************************************************************)
(* A model of pkg/asset/agent/manifests/agentclusterinstall.go: the        *)
(* AgentClusterInstall asset (Generate, Files, Load, finish), the          *)
(* network-type resolver setNetworkType and the validator                  *)
(* validateIPAddressAndNetworkType.                                        *)
(*                                                                         *)
(* Go values are modelled as follows.                                      *)
(*   - a nil pointer is the record [nil |-> TRUE]; a non-nil struct is a   *)
(*     record of its fields;                                               *)
(*   - a slice is a sequence (a nil slice and an empty slice both have no  *)
(*     entries and are the empty sequence);                                *)
(*   - CIDR texts are taken from a small catalogue of strings and          *)
(*     net.ParseCIDR is the table of what it returns on each of them;      *)
(*   - a net.IP is the record of its byte length and of whether its bytes  *)
(*     are an IPv4 address;                                                *)
(*   - an SSH key is a sequence of characters;                             *)
(*   - the bytes of a YAML file are the record of the keys the document    *)
(*     holds and of their values.                                          *)
(***************************************************************************)
EXTENDS Naturals, Sequences, FiniteSets

VARIABLES
    a,              \* the AgentClusterInstall asset: File and Config
    installConfig,  \* the caller's install configuration after the last Generate
    dependencies,   \* the install configuration as it was passed to the last Generate
    ret,            \* what the last Generate or Load returned, and what it logged
    vAsset,         \* validator: the asset whose Config is validated
    vRes,           \* validator: the error list it returned
    rAci,           \* resolver: the descriptor setNetworkType is called on
    rArg,           \* resolver: the install configuration as passed to the last call
    rIC,            \* resolver: the install configuration after the last call
    rRet,           \* resolver: whether the last call panicked, and what it logged
    rCalls          \* resolver: number of calls made on rAci

assetVars == <<a, installConfig, dependencies, ret>>
validatorVars == <<vAsset, vRes>>
resolverVars == <<rAci, rArg, rIC, rRet, rCalls>>
vars == <<a, installConfig, dependencies, ret, vAsset, vRes, rAci, rArg, rIC, rRet, rCalls>>

-----------------------------------------------------------------------------
(* Bounds *)

\* longest cluster-network / service-network list of a validated descriptor
MaxEntries == 2
\* most compute pools of an install configuration
MaxPools == 2
\* largest control-plane replica count
MaxControlPlane == 2
\* most calls of setNetworkType on one descriptor
MaxResolveCalls == 2

SeqsUpTo(S, n) == UNION {[1..k -> S] : k \in 0..n}

-----------------------------------------------------------------------------
(* Strings and nil values *)

OpenShiftSDN == "OpenShiftSDN"
OVNKubernetes == "OVNKubernetes"
agentClusterInstallFilename == "cluster-manifests/agent-cluster-install.yaml"

NetworkTypePath == "spec.networking.networkType"
ClusterNetworkPath == "spec.networking.clusterNetwork"
ServiceNetworkPath == "spec.networking.serviceNetwork"

NilFile == [nil |-> TRUE]
NilConfig == [nil |-> TRUE]
NilInstallConfig == [nil |-> TRUE]
NilNetworking == [nil |-> TRUE]
NilIP == [len |-> 0, v4 |-> FALSE]
NoLog == [logged |-> FALSE]

-----------------------------------------------------------------------------
(* net.IP, net.ParseCIDR *)

\* net.IP.To16: a 4-byte address becomes its 16-byte form, a 16-byte address
\* is returned as it is, anything else gives nil.
To16(ip) ==
    IF ip.len = 4 THEN [len |-> 16, v4 |-> TRUE]
    ELSE IF ip.len = 16 THEN ip
    ELSE NilIP

isIPv6(ipAddress) ==
    LET ip == To16(ipAddress)
    IN  ip # NilIP

\* The texts of the catalogue that are CIDR ranges.
IPv4Texts == {"10.128.0.0/14", "10.128.0.5/14"}
IPv6Texts == {"fd01::/48"}
\* "<nil>" is the String() of a zero ipnet.IPNet; "bogus" is any other text
\* that is no CIDR.
UnparsableTexts == {"<nil>", "bogus"}

\* net.ParseCIDR(s): the address (always in 16-byte form), the network (the
\* address masked to the prefix length, given here by its String()), and the
\* error.
ParseCIDR(s) ==
    CASE s = "10.128.0.0/14" ->
            [err |-> FALSE, ip |-> [len |-> 16, v4 |-> TRUE], net |-> "10.128.0.0/14"]
      [] s = "10.128.0.5/14" ->
            [err |-> FALSE, ip |-> [len |-> 16, v4 |-> TRUE], net |-> "10.128.0.0/14"]
      [] s = "fd01::/48" ->
            [err |-> FALSE, ip |-> [len |-> 16, v4 |-> FALSE], net |-> "fd01::/48"]
      [] OTHER ->
            [err |-> TRUE, ip |-> NilIP, net |-> "<nil>"]

\* validate.SubnetCIDR(cidr), TRUE when it returns an error: it rejects a
\* network whose host bits are not zero. Generate gives it the network
\* net.ParseCIDR returned, which is masked already.
SubnetCIDR(cidr) ==
    IF ParseCIDR(cidr).err THEN TRUE
    ELSE ParseCIDR(cidr).net # cidr

\* ipnet.ParseCIDR(s) followed by String(): the address is kept with its
\* host bits, printed in the canonical form.
ipnetParseCIDR(s) ==
    IF ParseCIDR(s).err THEN [err |-> TRUE, text |-> "<nil>"]
    ELSE [err |-> FALSE, text |-> s]

-----------------------------------------------------------------------------
(* field.ErrorList *)

Required(path, detail) == [type |-> "Required", field |-> path, detail |-> detail]

RECURSIVE CountAt(_, _)
\* number of errors of an error list at a field path
CountAt(errs, path) ==
    IF errs = <<>> THEN 0
    ELSE (IF Head(errs).field = path THEN 1 ELSE 0) + CountAt(Tail(errs), path)

-----------------------------------------------------------------------------
(* validateIPAddressAndNetworkType *)

RECURSIVE clusterNetworkLoop(_, _)
\* the loop over Spec.Networking.ClusterNetwork from entry i on:
\* the errors appended and whether hasIPv6 was set
clusterNetworkLoop(cns, i) ==
    IF i > Len(cns) THEN [errs |-> <<>>, hasIPv6 |-> FALSE]
    ELSE LET p == ParseCIDR(cns[i].CIDR)
             rest == clusterNetworkLoop(cns, i + 1)
         IN  [errs |-> (IF p.err
                        THEN <<Required(ClusterNetworkPath, "error parsing the clusterNetwork CIDR")>>
                        ELSE <<>>) \o rest.errs,
              hasIPv6 |-> isIPv6(p.ip) \/ rest.hasIPv6]

RECURSIVE serviceNetworkLoop(_, _)
\* the loop over Spec.Networking.ServiceNetwork from entry i on
serviceNetworkLoop(sns, i) ==
    IF i > Len(sns) THEN [errs |-> <<>>, hasIPv6 |-> FALSE]
    ELSE LET p == ParseCIDR(sns[i])
             rest == serviceNetworkLoop(sns, i + 1)
         IN  [errs |-> (IF p.err
                        THEN <<Required(ServiceNetworkPath, "error parsing the clusterNetwork CIDR")>>
                        ELSE <<>>) \o rest.errs,
              hasIPv6 |-> isIPv6(p.ip) \/ rest.hasIPv6]

\* the validator as a bug would write it: the checks run for every network type
validateIPAddressAndNetworkType_AnyType(asset) ==
    LET cn == clusterNetworkLoop(asset.Config.Spec.Networking.ClusterNetwork, 1)
        sn == serviceNetworkLoop(asset.Config.Spec.Networking.ServiceNetwork, 1)
    IN  cn.errs
        \o (IF cn.hasIPv6
            THEN <<Required(NetworkTypePath,
                     "clusterNetwork CIDR is IPv6 and is not compatible with networkType OpenShiftSDN")>>
            ELSE <<>>)
        \o sn.errs
        \o (IF sn.hasIPv6
            THEN <<Required(NetworkTypePath,
                     "serviceNetwork CIDR is IPv6 and is not compatible with networkType OpenShiftSDN")>>
            ELSE <<>>)

validateIPAddressAndNetworkType(asset) ==
    IF asset.Config.Spec.Networking.NetworkType = OpenShiftSDN
    THEN LET cn == clusterNetworkLoop(asset.Config.Spec.Networking.ClusterNetwork, 1)
             sn == serviceNetworkLoop(asset.Config.Spec.Networking.ServiceNetwork, 1)
         IN  cn.errs
             \o (IF cn.hasIPv6
                 THEN <<Required(NetworkTypePath,
                          "clusterNetwork CIDR is IPv6 and is not compatible with networkType OpenShiftSDN")>>
                 ELSE <<>>)
             \o sn.errs
             \o (IF sn.hasIPv6
                 THEN <<Required(NetworkTypePath,
                          "serviceNetwork CIDR is IPv6 and is not compatible with networkType OpenShiftSDN")>>
                 ELSE <<>>)
    ELSE <<>>

-----------------------------------------------------------------------------
(* The descriptor (hiveext.AgentClusterInstall) and its YAML form *)

ZeroDescriptor ==
    [ObjectMeta |-> [Name |-> "", Namespace |-> ""],
     Spec |-> [ImageSetRef |-> [nil |-> TRUE],
               ClusterDeploymentRef |-> [Name |-> ""],
               Networking |-> [ClusterNetwork |-> <<>>,
                               ServiceNetwork |-> <<>>,
                               NetworkType |-> ""],
               SSHPublicKey |-> <<>>,
               ProvisionRequirements |-> [ControlPlaneAgents |-> 0, WorkerAgents |-> 0],
               APIVIP |-> "",
               IngressVIP |-> ""]]

\* The keys of the schema this model follows.
KnownKeys ==
    {"metadata.name", "metadata.namespace", "spec.imageSetRef",
     "spec.clusterDeploymentRef", "spec.networking.clusterNetwork",
     "spec.networking.serviceNetwork", "spec.networking.networkType",
     "spec.sshPublicKey", "spec.provisionRequirements.controlPlaneAgents",
     "spec.provisionRequirements.workerAgents", "spec.apiVIP", "spec.ingressVIP"}

\* yaml.Marshal(agentClusterInstall): a key tagged omitempty is written only
\* when its value is not the zero value; the other keys are always written.
\* It returns no error on this type.
Marshal(d) ==
    [wellFormed |-> TRUE,
     keys |-> {"metadata.name", "spec.clusterDeploymentRef",
                  "spec.provisionRequirements.controlPlaneAgents"}
              \cup (IF d.ObjectMeta.Namespace # "" THEN {"metadata.namespace"} ELSE {})
              \cup (IF d.Spec.ImageSetRef # [nil |-> TRUE] THEN {"spec.imageSetRef"} ELSE {})
              \cup (IF d.Spec.Networking.ClusterNetwork # <<>>
                    THEN {"spec.networking.clusterNetwork"} ELSE {})
              \cup (IF d.Spec.Networking.ServiceNetwork # <<>>
                    THEN {"spec.networking.serviceNetwork"} ELSE {})
              \cup (IF d.Spec.Networking.NetworkType # ""
                    THEN {"spec.networking.networkType"} ELSE {})
              \cup (IF d.Spec.SSHPublicKey # <<>> THEN {"spec.sshPublicKey"} ELSE {})
              \cup (IF d.Spec.ProvisionRequirements.WorkerAgents # 0
                    THEN {"spec.provisionRequirements.workerAgents"} ELSE {})
              \cup (IF d.Spec.APIVIP # "" THEN {"spec.apiVIP"} ELSE {})
              \cup (IF d.Spec.IngressVIP # "" THEN {"spec.ingressVIP"} ELSE {}),
     values |-> d]

\* yaml.UnmarshalStrict(data, agentClusterInstall): an error for bytes that
\* are no YAML document and for a document with a key the schema does not
\* know; otherwise every field takes the value of its key, and the zero
\* value when the document does not hold the key.
UnmarshalStrict(data) ==
    IF ~data.wellFormed \/ ~(data.keys \subseteq KnownKeys)
    THEN [err |-> TRUE, obj |-> ZeroDescriptor]
    ELSE LET Has(k) == k \in data.keys
             v == data.values
             z == ZeroDescriptor
         IN [err |-> FALSE,
             obj |->
               [ObjectMeta |->
                  [Name |-> IF Has("metadata.name")
                            THEN v.ObjectMeta.Name ELSE z.ObjectMeta.Name,
                   Namespace |-> IF Has("metadata.namespace")
                                 THEN v.ObjectMeta.Namespace ELSE z.ObjectMeta.Namespace],
                Spec |->
                  [ImageSetRef |-> IF Has("spec.imageSetRef")
                                   THEN v.Spec.ImageSetRef ELSE z.Spec.ImageSetRef,
                   ClusterDeploymentRef |-> IF Has("spec.clusterDeploymentRef")
                                            THEN v.Spec.ClusterDeploymentRef
                                            ELSE z.Spec.ClusterDeploymentRef,
                   Networking |->
                     [ClusterNetwork |-> IF Has("spec.networking.clusterNetwork")
                                         THEN v.Spec.Networking.ClusterNetwork ELSE <<>>,
                      ServiceNetwork |-> IF Has("spec.networking.serviceNetwork")
                                         THEN v.Spec.Networking.ServiceNetwork ELSE <<>>,
                      NetworkType |-> IF Has("spec.networking.networkType")
                                      THEN v.Spec.Networking.NetworkType ELSE ""],
                   SSHPublicKey |-> IF Has("spec.sshPublicKey")
                                    THEN v.Spec.SSHPublicKey ELSE <<>>,
                   ProvisionRequirements |->
                     [ControlPlaneAgents |->
                        IF Has("spec.provisionRequirements.controlPlaneAgents")
                        THEN v.Spec.ProvisionRequirements.ControlPlaneAgents ELSE 0,
                      WorkerAgents |->
                        IF Has("spec.provisionRequirements.workerAgents")
                        THEN v.Spec.ProvisionRequirements.WorkerAgents ELSE 0],
                   APIVIP |-> IF Has("spec.apiVIP") THEN v.Spec.APIVIP ELSE "",
                   IngressVIP |-> IF Has("spec.ingressVIP") THEN v.Spec.IngressVIP ELSE ""]]]

-----------------------------------------------------------------------------
(* setNetworkType *)

\* defaults.SetInstallConfigDefaults(c): fills a missing networking block and
\* an unset network type of c, in place; the value is c afterwards.
SetInstallConfigDefaults(c) ==
    LET n == IF c.Networking = NilNetworking
             THEN [ClusterNetwork |-> <<>>, ServiceNetwork |-> <<>>, NetworkType |-> ""]
             ELSE c.Networking
    IN  [c EXCEPT !.Networking =
            [n EXCEPT !.NetworkType = IF n.NetworkType = "" THEN OVNKubernetes
                                      ELSE n.NetworkType]]

\* the resolver as a bug would write it: the default is logged and not adopted
setNetworkType_DefaultNotAdopted(aci, ic, warningMessage) ==
    IF aci.Spec.Networking.NetworkType # ""
    THEN [aci |-> aci, installConfig |-> ic, log |-> NoLog, panicked |-> FALSE]
    ELSE IF ic # NilInstallConfig /\ ic.Networking # NilNetworking
            /\ ic.Networking.NetworkType # ""
    THEN [aci |-> [aci EXCEPT !.Spec.Networking.NetworkType = ic.Networking.NetworkType],
          installConfig |-> ic, log |-> NoLog, panicked |-> FALSE]
    ELSE IF ic = NilInstallConfig
    THEN [aci |-> aci, installConfig |-> ic, log |-> NoLog, panicked |-> TRUE]
    ELSE LET d == SetInstallConfigDefaults(ic)
         IN  [aci |-> aci,
              installConfig |-> d,
              log |-> [logged |-> TRUE, warningMessage |-> warningMessage,
                       networkType |-> d.Networking.NetworkType],
              panicked |-> FALSE]

\* the resolver as a bug would write it: the descriptor's own network type
\* is not looked at
setNetworkType_OwnTypeIgnored(aci, ic, warningMessage) ==
    IF ic # NilInstallConfig /\ ic.Networking # NilNetworking
       /\ ic.Networking.NetworkType # ""
    THEN [aci |-> [aci EXCEPT !.Spec.Networking.NetworkType = ic.Networking.NetworkType],
          installConfig |-> ic, log |-> NoLog, panicked |-> FALSE]
    ELSE IF ic = NilInstallConfig
    THEN [aci |-> aci, installConfig |-> ic, log |-> NoLog, panicked |-> TRUE]
    ELSE LET d == SetInstallConfigDefaults(ic)
         IN  [aci |-> [aci EXCEPT !.Spec.Networking.NetworkType = d.Networking.NetworkType],
              installConfig |-> d,
              log |-> [logged |-> TRUE, warningMessage |-> warningMessage,
                       networkType |-> d.Networking.NetworkType],
              panicked |-> FALSE]

\* setNetworkType(aci, installConfig, warningMessage): the descriptor and the
\* install configuration after the call, the line logged, and whether the
\* call panicked (a nil install configuration is dereferenced when the
\* descriptor carries no network type).
setNetworkType(aci, ic, warningMessage) ==
    IF aci.Spec.Networking.NetworkType # ""
    THEN [aci |-> aci, installConfig |-> ic, log |-> NoLog, panicked |-> FALSE]
    ELSE IF ic # NilInstallConfig /\ ic.Networking # NilNetworking
            /\ ic.Networking.NetworkType # ""
    THEN [aci |-> [aci EXCEPT !.Spec.Networking.NetworkType = ic.Networking.NetworkType],
          installConfig |-> ic, log |-> NoLog, panicked |-> FALSE]
    ELSE IF ic = NilInstallConfig
    THEN [aci |-> aci, installConfig |-> ic, log |-> NoLog, panicked |-> TRUE]
    ELSE LET d == SetInstallConfigDefaults(ic)
         IN  [aci |-> [aci EXCEPT !.Spec.Networking.NetworkType = d.Networking.NetworkType],
              installConfig |-> d,
              log |-> [logged |-> TRUE, warningMessage |-> warningMessage,
                       networkType |-> d.Networking.NetworkType],
              panicked |-> FALSE]

-----------------------------------------------------------------------------
(* finish, Files *)

finish(asset) ==
    IF asset.Config = NilConfig THEN "missing configuration or manifest file"
    ELSE IF validateIPAddressAndNetworkType(asset) # <<>>
    THEN "invalid NetworkType configured"
    ELSE ""

Files(asset) ==
    IF asset.File # NilFile THEN <<asset.File>> ELSE <<>>

-----------------------------------------------------------------------------
(* Generate *)

RECURSIVE numberOfWorkers(_)
\* the sum of the compute pools' replica counts
numberOfWorkers(compute) ==
    IF compute = <<>> THEN 0
    ELSE Head(compute).Replicas + numberOfWorkers(Tail(compute))

RECURSIVE clusterNetworkEntries(_, _)
\* the loop over Networking.ClusterNetwork from entry i on: the entries
\* built, or the error of the first entry that fails
clusterNetworkEntries(cns, i) ==
    IF i > Len(cns) THEN [err |-> "", entries |-> <<>>]
    ELSE LET p == ParseCIDR(cns[i].CIDR)
         IN  IF p.err THEN [err |-> "failed to parse ClusterNetwork CIDR", entries |-> <<>>]
             ELSE IF SubnetCIDR(p.net)
             THEN [err |-> "failed to validate ClusterNetwork CIDR", entries |-> <<>>]
             ELSE LET rest == clusterNetworkEntries(cns, i + 1)
                  IN  [err |-> rest.err,
                       entries |-> <<[CIDR |-> p.net, HostPrefix |-> cns[i].HostPrefix]>>
                                   \o rest.entries]

RECURSIVE serviceNetworkEntries(_, _)
\* the loop over Networking.ServiceNetwork from entry i on
serviceNetworkEntries(sns, i) ==
    IF i > Len(sns) THEN [err |-> "", entries |-> <<>>]
    ELSE LET p == ipnetParseCIDR(sns[i])
         IN  IF p.err THEN [err |-> "failed to parse ServiceNetwork CIDR", entries |-> <<>>]
             ELSE LET rest == serviceNetworkEntries(sns, i + 1)
                  IN  [err |-> rest.err, entries |-> <<p.text>> \o rest.entries]

RECURSIVE TrimLeft(_, _)
TrimLeft(s, cutset) ==
    IF s # <<>> /\ Head(s) \in cutset THEN TrimLeft(Tail(s), cutset) ELSE s

RECURSIVE TrimRight(_, _)
TrimRight(s, cutset) ==
    IF s # <<>> /\ s[Len(s)] \in cutset
    THEN TrimRight(SubSeq(s, 1, Len(s) - 1), cutset) ELSE s

\* strings.Trim(s, cutset)
Trim(s, cutset) == TrimRight(TrimLeft(s, cutset), cutset)

\* getVIPs(platform): the API and Ingress virtual IPs of the platform section
getVIPs(platform) == [apiVIP |-> platform.APIVIP, ingressVIP |-> platform.IngressVIP]

getAgentClusterInstallName(c) == c.ObjectMeta.Name
getObjectMetaNamespace(c) == c.ObjectMeta.Namespace
getClusterDeploymentName(c) == c.ObjectMeta.Name
getClusterImageSetReferenceName == "openshift-version"

\* the VIP step as a bug would write it: the pair is set when either VIP is given
setVIPs_EitherVIP(aci, replicas, vips) ==
    IF replicas > 1 /\ (vips.apiVIP # "" \/ vips.ingressVIP # "")
    THEN [aci EXCEPT !.Spec.APIVIP = vips.apiVIP, !.Spec.IngressVIP = vips.ingressVIP]
    ELSE aci

\* the VIP step of Generate: APIVIP and IngressVIP are set only for a cluster
\* that is not single-node and only when both are given
setVIPs(aci, replicas, vips) ==
    IF replicas > 1 /\ vips.apiVIP # "" /\ vips.ingressVIP # ""
    THEN [aci EXCEPT !.Spec.APIVIP = vips.apiVIP, !.Spec.IngressVIP = vips.ingressVIP]
    ELSE aci

\* Generate(dependencies) on the asset, c being installConfig.Config: the
\* asset and the install configuration afterwards, the error returned and the
\* line logged.
Generate(asset, c) ==
    IF c = NilInstallConfig
    THEN [a |-> asset, installConfig |-> c, err |-> finish(asset), log |-> NoLog]
    ELSE
    LET cn == clusterNetworkEntries(c.Networking.ClusterNetwork, 1)
        sn == serviceNetworkEntries(c.Networking.ServiceNetwork, 1)
    IN
    IF cn.err # "" THEN [a |-> asset, installConfig |-> c, err |-> cn.err, log |-> NoLog]
    ELSE IF sn.err # "" THEN [a |-> asset, installConfig |-> c, err |-> sn.err, log |-> NoLog]
    ELSE
    LET agentClusterInstall ==
            [ObjectMeta |-> [Name |-> getAgentClusterInstallName(c),
                             Namespace |-> getObjectMetaNamespace(c)],
             Spec |-> [ImageSetRef |-> [Name |-> getClusterImageSetReferenceName],
                       ClusterDeploymentRef |-> [Name |-> getClusterDeploymentName(c)],
                       Networking |-> [ClusterNetwork |-> cn.entries,
                                       ServiceNetwork |-> sn.entries,
                                       NetworkType |-> ""],
                       SSHPublicKey |-> Trim(c.SSHKey, {"|", "\n", "\t"}),
                       ProvisionRequirements |->
                           [ControlPlaneAgents |-> c.ControlPlane.Replicas,
                            WorkerAgents |-> numberOfWorkers(c.Compute)],
                       APIVIP |-> "",
                       IngressVIP |-> ""]]
        r == setNetworkType(agentClusterInstall, c,
                            "NetworkType is not specified in InstallConfig.")
        vips == getVIPs(r.installConfig.Platform)
        withVIPs == setVIPs(r.aci, r.installConfig.ControlPlane.Replicas, vips)
        generated == [File |-> [Filename |-> agentClusterInstallFilename,
                                Data |-> Marshal(withVIPs)],
                      Config |-> withVIPs]
    IN  [a |-> generated, installConfig |-> r.installConfig,
         err |-> finish(generated), log |-> r.log]

-----------------------------------------------------------------------------
(* Load *)

\* &types.InstallConfig{}
BlankInstallConfig ==
    [ObjectMeta |-> [Name |-> "", Namespace |-> ""],
     Compute |-> <<>>,
     ControlPlane |-> [nil |-> TRUE],
     Networking |-> NilNetworking,
     SSHKey |-> <<>>,
     Platform |-> [APIVIP |-> "", IngressVIP |-> ""]]

\* Load as a bug would write it: every error of the fetch is taken for absence
Load_AnyErrorAbsent(asset, fetch) ==
    IF fetch.err # ""
    THEN [a |-> asset, found |-> FALSE, err |-> "", log |-> NoLog]
    ELSE
    LET fetched == [asset EXCEPT !.File = fetch.file]
        u == UnmarshalStrict(fetch.file.Data)
    IN
    IF u.err
    THEN [a |-> fetched, found |-> FALSE, err |-> "failed to unmarshal", log |-> NoLog]
    ELSE
    LET r == setNetworkType(u.obj, BlankInstallConfig,
                            "NetworkType is not specified in AgentClusterInstall.")
        loaded == [fetched EXCEPT !.Config = r.aci]
        err == finish(loaded)
    IN  [a |-> loaded, found |-> err = "", err |-> err, log |-> r.log]

\* Load(f) on the asset, fetch being what f.FetchByName returns: the asset
\* afterwards, the two values returned and the line logged. The error of the
\* fetch is "notexist" for an error os.IsNotExist accepts.
Load(asset, fetch) ==
    IF fetch.err # ""
    THEN IF fetch.err = "notexist"
         THEN [a |-> asset, found |-> FALSE, err |-> "", log |-> NoLog]
         ELSE [a |-> asset, found |-> FALSE, err |-> "failed to load file", log |-> NoLog]
    ELSE
    LET fetched == [asset EXCEPT !.File = fetch.file]
        u == UnmarshalStrict(fetch.file.Data)
    IN
    IF u.err
    THEN [a |-> fetched, found |-> FALSE, err |-> "failed to unmarshal", log |-> NoLog]
    ELSE
    LET r == setNetworkType(u.obj, BlankInstallConfig,
                            "NetworkType is not specified in AgentClusterInstall.")
        loaded == [fetched EXCEPT !.Config = r.aci]
        err == finish(loaded)
    IN  [a |-> loaded, found |-> err = "", err |-> err, log |-> r.log]

-----------------------------------------------------------------------------
(* The inputs *)

NetworkTypes == {"", OpenShiftSDN, OVNKubernetes}

\* install configurations: the String() of the ipnet.IPNet values of the
\* network lists
InstallConfigClusterNetworks ==
    {<<>>,
     <<[CIDR |-> "10.128.0.5/14", HostPrefix |-> 23]>>,
     <<[CIDR |-> "fd01::/48", HostPrefix |-> 64]>>,
     <<[CIDR |-> "10.128.0.5/14", HostPrefix |-> 23], [CIDR |-> "fd01::/48", HostPrefix |-> 64]>>}

InstallConfigServiceNetworks ==
    {<<>>, <<"10.128.0.5/14">>, <<"fd01::/48">>, <<"10.128.0.5/14", "fd01::/48">>}

\* network lists holding a zero IPNet, whose String() is "<nil>"
UnparsableClusterNetworks ==
    {<<[CIDR |-> "<nil>", HostPrefix |-> 0]>>,
     <<[CIDR |-> "10.128.0.5/14", HostPrefix |-> 23], [CIDR |-> "<nil>", HostPrefix |-> 0]>>}

UnparsableServiceNetworks == {<<"<nil>">>, <<"fd01::/48", "<nil>">>}

SSHKeys == {<<"|", "\n", "k", "|", "e", "y", "\t", "\n">>, <<" ", "k", "e", "y">>}

APIVIPs == {"", "192.168.1.10"}
IngressVIPs == {"", "192.168.1.11"}

BaseInstallConfig ==
    [ObjectMeta |-> [Name |-> "ostest", Namespace |-> "cluster0"],
     Compute |-> <<[Replicas |-> 3], [Replicas |-> 3]>>,
     ControlPlane |-> [Replicas |-> 1],
     Networking |-> [ClusterNetwork |-> <<[CIDR |-> "10.128.0.5/14", HostPrefix |-> 23]>>,
                     ServiceNetwork |-> <<"10.128.0.5/14">>,
                     NetworkType |-> ""],
     SSHKey |-> <<"|", "\n", "k", "|", "e", "y", "\t", "\n">>,
     Platform |-> [APIVIP |-> "192.168.1.10", IngressVIP |-> "192.168.1.11"]]

\* The install configurations Generate is given: the base configuration with
\* its networking varied, with a network list that does not parse, and with
\* its pools, replica counts, SSH key and virtual IPs varied.
InstallConfigs ==
    {[BaseInstallConfig EXCEPT !.Networking =
          [ClusterNetwork |-> cn, ServiceNetwork |-> sn, NetworkType |-> nt]] :
        cn \in InstallConfigClusterNetworks, sn \in InstallConfigServiceNetworks,
        nt \in NetworkTypes}
    \cup
    {[BaseInstallConfig EXCEPT !.Networking.ClusterNetwork = cn,
                               !.Networking.NetworkType = nt] :
        cn \in UnparsableClusterNetworks, nt \in {"", OpenShiftSDN}}
    \cup
    {[BaseInstallConfig EXCEPT !.Networking.ServiceNetwork = sn,
                               !.Networking.NetworkType = nt] :
        sn \in UnparsableServiceNetworks, nt \in {"", OpenShiftSDN}}
    \cup
    {[BaseInstallConfig EXCEPT !.Compute = [i \in 1..pools |-> [Replicas |-> 3]],
                               !.ControlPlane = [Replicas |-> cp],
                               !.SSHKey = key,
                               !.Platform = [APIVIP |-> api, IngressVIP |-> ingress]] :
        pools \in 0..MaxPools, cp \in 1..MaxControlPlane,
        key \in SSHKeys, api \in APIVIPs, ingress \in IngressVIPs}

\* descriptors: the CIDR texts of a descriptor read from a file or validated
DescriptorTexts == {"10.128.0.0/14", "fd01::/48", "bogus"}

Descriptor(nt, cn, sn) ==
    [ObjectMeta |-> [Name |-> "ostest", Namespace |-> "cluster0"],
     Spec |-> [ImageSetRef |-> [Name |-> "openshift-version"],
               ClusterDeploymentRef |-> [Name |-> "ostest"],
               Networking |-> [ClusterNetwork |-> cn, ServiceNetwork |-> sn,
                               NetworkType |-> nt],
               SSHPublicKey |-> <<"k", "e", "y">>,
               ProvisionRequirements |-> [ControlPlaneAgents |-> 1, WorkerAgents |-> 0],
               APIVIP |-> "",
               IngressVIP |-> ""]]

FileClusterNetworks ==
    {<<>>} \cup {<<[CIDR |-> t, HostPrefix |-> 23]>> : t \in DescriptorTexts}

FileServiceNetworks == {<<>>} \cup {<<t>> : t \in DescriptorTexts}

\* bytes that are no YAML document
CorruptData == [wellFormed |-> FALSE, keys |-> {}, values |-> ZeroDescriptor]

\* a document with a key the schema does not know
UnknownFieldData ==
    LET d == Marshal(Descriptor(OVNKubernetes, <<>>, <<>>))
    IN  [d EXCEPT !.keys = d.keys \cup {"spec.bogusField"}]

FileData ==
    {CorruptData, UnknownFieldData}
    \cup {Marshal(Descriptor(nt, cn, sn)) :
            nt \in NetworkTypes, cn \in FileClusterNetworks, sn \in FileServiceNetworks}

\* What f.FetchByName returns to Load: the record does not exist, the fetch
\* fails otherwise, a file of the store, or the file the asset exposes (the
\* store wrote Files() and reads it back).
FetchResults(asset) ==
    {[err |-> e, file |-> NilFile] : e \in {"notexist", "io"}}
    \cup {[err |-> "", file |-> [Filename |-> agentClusterInstallFilename, Data |-> d]] :
            d \in FileData}
    \cup {[err |-> "", file |-> f] : f \in {asset.File} \ {NilFile}}

-----------------------------------------------------------------------------
(* The asset: Generate and Load *)

NewAsset == [File |-> NilFile, Config |-> NilConfig]

AssetInit ==
    /\ a = NewAsset
    /\ installConfig = NilInstallConfig
    /\ dependencies = NilInstallConfig
    /\ ret = [op |-> "new", fetchErr |-> "", found |-> FALSE, err |-> "", log |-> NoLog]

GenerateAction ==
    \E c \in InstallConfigs \cup {NilInstallConfig} :
        LET r == Generate(a, c)
        IN  /\ a' = r.a
            /\ installConfig' = r.installConfig
            /\ dependencies' = c
            /\ ret' = [op |-> "Generate", fetchErr |-> "", found |-> FALSE,
                       err |-> r.err, log |-> r.log]
            /\ UNCHANGED <<validatorVars, resolverVars>>

LoadAction ==
    \E fetch \in FetchResults(a) :
        LET r == Load(a, fetch)
        IN  /\ a' = r.a
            /\ installConfig' = NilInstallConfig
            /\ dependencies' = NilInstallConfig
            /\ ret' = [op |-> "Load", fetchErr |-> fetch.err, found |-> r.found,
                       err |-> r.err, log |-> r.log]
            /\ UNCHANGED <<validatorVars, resolverVars>>

-----------------------------------------------------------------------------
(* The validator on its own *)

ValidatorConfigs ==
    {Descriptor(nt, cn, sn) :
        nt \in NetworkTypes,
        cn \in SeqsUpTo({[CIDR |-> t, HostPrefix |-> 23] : t \in DescriptorTexts}, MaxEntries),
        sn \in SeqsUpTo(DescriptorTexts, MaxEntries)}

ValidatorIdle ==
    /\ vAsset = NewAsset
    /\ vRes = [done |-> FALSE, errs |-> <<>>]

ValidatorInit ==
    /\ vAsset \in {[File |-> NilFile, Config |-> d] : d \in ValidatorConfigs}
    /\ vRes = [done |-> FALSE, errs |-> <<>>]

Validate ==
    /\ ~vRes.done
    /\ vRes' = [done |-> TRUE, errs |-> validateIPAddressAndNetworkType(vAsset)]
    /\ UNCHANGED <<vAsset, assetVars, resolverVars>>

-----------------------------------------------------------------------------
(* The resolver on its own *)

WarningMessages ==
    {"NetworkType is not specified in InstallConfig.",
     "NetworkType is not specified in AgentClusterInstall."}

ResolverNetworkTypes == NetworkTypes \cup {"Calico"}

ResolverInstallConfigs ==
    {NilInstallConfig, BlankInstallConfig}
    \cup {[BlankInstallConfig EXCEPT !.Networking =
             [ClusterNetwork |-> <<>>, ServiceNetwork |-> <<>>, NetworkType |-> nt]] :
            nt \in ResolverNetworkTypes}

ResolverIdle ==
    /\ rAci = ZeroDescriptor
    /\ rArg = NilInstallConfig
    /\ rIC = NilInstallConfig
    /\ rRet = [panicked |-> FALSE, log |-> NoLog]
    /\ rCalls = 0

ResolverInit ==
    /\ rAci \in {Descriptor(nt, cn, <<>>) :
                    nt \in ResolverNetworkTypes, cn \in FileClusterNetworks}
    /\ rArg = NilInstallConfig
    /\ rIC = NilInstallConfig
    /\ rRet = [panicked |-> FALSE, log |-> NoLog]
    /\ rCalls = 0

Resolve ==
    /\ rCalls < MaxResolveCalls
    /\ ~rRet.panicked
    /\ \E ic \in ResolverInstallConfigs, warningMessage \in WarningMessages :
        LET r == setNetworkType(rAci, ic, warningMessage)
        IN  /\ rAci' = r.aci
            /\ rArg' = ic
            /\ rIC' = r.installConfig
            /\ rRet' = [panicked |-> r.panicked, log |-> r.log]
            /\ rCalls' = rCalls + 1
    /\ UNCHANGED <<assetVars, validatorVars>>

-----------------------------------------------------------------------------
(* Specifications *)

Init == AssetInit /\ ValidatorIdle /\ ResolverIdle
Next == GenerateAction \/ LoadAction
Spec == Init /\ [][Next]_vars

InitValidator == AssetInit /\ ValidatorInit /\ ResolverIdle
NextValidator == Validate
SpecValidator == InitValidator /\ [][NextValidator]_vars

InitResolver == AssetInit /\ ValidatorIdle /\ ResolverInit
NextResolver == Resolve
SpecResolver == InitResolver /\ [][NextResolver]_vars

-----------------------------------------------------------------------------
(* Properties *)

\* the networking block of the validated descriptor
vNetworking == vAsset.Config.Spec.Networking
vClusterTexts == {vNetworking.ClusterNetwork[i].CIDR : i \in 1..Len(vNetworking.ClusterNetwork)}
vServiceTexts == {vNetworking.ServiceNetwork[i] : i \in 1..Len(vNetworking.ServiceNetwork)}
ParsableTexts == IPv4Texts \cup IPv6Texts
vUnparsableClusterEntries ==
    Cardinality({i \in 1..Len(vNetworking.ClusterNetwork) :
                    vNetworking.ClusterNetwork[i].CIDR \notin ParsableTexts})
vUnparsableServiceEntries ==
    Cardinality({i \in 1..Len(vNetworking.ServiceNetwork) :
                    vNetworking.ServiceNetwork[i] \notin ParsableTexts})

\* C1: for a descriptor whose network type is not OpenShiftSDN the validator
\* returns an empty error list, whatever the cluster-network and
\* service-network lists hold.
C1_OtherNetworkTypesPass ==
    (vRes.done /\ vNetworking.NetworkType # OpenShiftSDN) => vRes.errs = <<>>

C1_Witness ==
    /\ vRes.done
    /\ vNetworking.NetworkType = OVNKubernetes
    /\ vClusterTexts \cap IPv6Texts # {}
    /\ "bogus" \in vServiceTexts
    /\ vRes.errs = <<>>

\* C2: with network type OpenShiftSDN, when every cluster-network and
\* service-network CIDR is a parsable IPv4 range the validator returns an
\* empty error list.
C2_IPv4OnlyPasses ==
    (/\ vRes.done
     /\ vNetworking.NetworkType = OpenShiftSDN
     /\ vClusterTexts \subseteq IPv4Texts
     /\ vServiceTexts \subseteq IPv4Texts)
    => vRes.errs = <<>>

\* C3: with network type OpenShiftSDN and an IPv6 entry in either list, the
\* validator returns one network-type-path error for each list that holds an
\* IPv6 entry, and as many errors at the cluster-network path and at the
\* service-network path as the respective list has unparsable entries.
C3_OneErrorPerIPv6List ==
    (/\ vRes.done
     /\ vNetworking.NetworkType = OpenShiftSDN
     /\ (vClusterTexts \cup vServiceTexts) \cap IPv6Texts # {})
    => /\ CountAt(vRes.errs, NetworkTypePath) =
            (IF vClusterTexts \cap IPv6Texts # {} THEN 1 ELSE 0)
            + (IF vServiceTexts \cap IPv6Texts # {} THEN 1 ELSE 0)
       /\ CountAt(vRes.errs, ClusterNetworkPath) = vUnparsableClusterEntries
       /\ CountAt(vRes.errs, ServiceNetworkPath) = vUnparsableServiceEntries

\* the errors with which Generate returns before it builds a descriptor
CIDRErrors ==
    {"failed to parse ClusterNetwork CIDR", "failed to validate ClusterNetwork CIDR",
     "failed to parse ServiceNetwork CIDR"}

\* the last call was a Generate that built a descriptor
Built == ret.op = "Generate" /\ dependencies # NilInstallConfig /\ ret.err \notin CIDRErrors

\* C4: the descriptor Generate builds carries the API and Ingress VIPs of the
\* platform accessor if and only if the control-plane replica count is
\* greater than 1 and both VIPs are non-empty; otherwise both fields are empty.
C4_VIPsBothOrNone ==
    Built =>
        LET vips == getVIPs(dependencies.Platform)
        IN  IF dependencies.ControlPlane.Replicas > 1
               /\ vips.apiVIP # "" /\ vips.ingressVIP # ""
            THEN /\ a.Config.Spec.APIVIP = vips.apiVIP
                 /\ a.Config.Spec.IngressVIP = vips.ingressVIP
            ELSE /\ a.Config.Spec.APIVIP = ""
                 /\ a.Config.Spec.IngressVIP = ""

C4_Witness ==
    /\ Built
    /\ dependencies.ControlPlane.Replicas > 1
    /\ dependencies.Platform.APIVIP # ""
    /\ dependencies.Platform.IngressVIP = ""
    /\ a.Config.Spec.APIVIP = ""
    /\ a.Config.Spec.IngressVIP = ""

\* C5: a call of setNetworkType that returns leaves the first non-empty of
\* the descriptor's own network type, the install configuration's network
\* type and the default of the default-policy function; the network type is
\* then not empty; and a later call, with any install configuration and any
\* warning text, leaves it unchanged.
C5_ResolverOrderAndIdempotence ==
    [][(rCalls' = rCalls + 1 /\ ~rRet'.panicked) =>
        /\ rAci'.Spec.Networking.NetworkType =
              (IF rAci.Spec.Networking.NetworkType # ""
               THEN rAci.Spec.Networking.NetworkType
               ELSE IF rArg'.Networking # NilNetworking /\ rArg'.Networking.NetworkType # ""
               THEN rArg'.Networking.NetworkType
               ELSE SetInstallConfigDefaults(rArg').Networking.NetworkType)
        /\ rAci'.Spec.Networking.NetworkType # ""
        /\ (rCalls >= 1 =>
              rAci'.Spec.Networking.NetworkType = rAci.Spec.Networking.NetworkType)]_vars

C5_Witness ==
    /\ rCalls = 2
    /\ ~rRet.panicked
    /\ rArg # NilInstallConfig
    /\ rArg.Networking # NilNetworking
    /\ rArg.Networking.NetworkType \notin {"", rAci.Spec.Networking.NetworkType}
    /\ rAci.Spec.Networking.NetworkType = OVNKubernetes

\* C6: Generate leaves every field of the caller's install configuration as
\* it was passed.
C6_InstallConfigNotMutated ==
    ret.op = "Generate" => installConfig = dependencies

\* C7: when the fetch reports that the record does not exist, Load returns
\* found=false and no error and leaves File and Config as they were; when
\* the fetch fails otherwise, Load returns found=false and an error.
C7_AbsenceIsNotFailure ==
    [][ret'.op = "Load" =>
        /\ (ret'.fetchErr = "notexist" => (~ret'.found /\ ret'.err = "" /\ a' = a))
        /\ (ret'.fetchErr = "io" => (~ret'.found /\ ret'.err # ""))]_vars

C7_Witness ==
    /\ ret.op = "Load"
    /\ ret.fetchErr = "notexist"
    /\ ~ret.found
    /\ ret.err = ""
    /\ a.File # NilFile
    /\ a.Config # NilConfig

\* C8: a Load that fetched a file and returns an error leaves File and
\* Config, and so the result of Files(), as they were before it.
C8_FailedLoadAdoptsNothing ==
    [][(ret'.op = "Load" /\ ret'.fetchErr = "" /\ ret'.err # "") =>
        (a' = a /\ Files(a') = Files(a))]_vars

\* C9: when Generate succeeds on an install configuration, Load of the file
\* it wrote, by a new asset, returns found=true and no error, and the loaded
\* descriptor has the networking block and the provisioning requirements of
\* the generated one.
C9_RoundTrip ==
    (Built /\ ret.err = "") =>
        LET l == Load(NewAsset, [err |-> "", file |-> a.File])
        IN  /\ l.found
            /\ l.err = ""
            /\ l.a.Config.Spec.Networking = a.Config.Spec.Networking
            /\ l.a.Config.Spec.ProvisionRequirements = a.Config.Spec.ProvisionRequirements

C9_Witness ==
    /\ Built
    /\ ret.err = ""
    /\ dependencies.Networking.NetworkType = ""
    /\ Len(a.Config.Spec.Networking.ClusterNetwork) = 2
    /\ a.Config.Spec.Networking.ClusterNetwork[1].CIDR = "10.128.0.0/14"
    /\ a.Config.Spec.Networking.ServiceNetwork # <<>>
    /\ a.Config.Spec.ProvisionRequirements.WorkerAgents = 6
    /\ Load(NewAsset, [err |-> "", file |-> a.File]).found

\* C10: a Generate that returns an error leaves the asset with no descriptor
\* and no file of that build: File and Config are as they were before it.
C10_FailedGenerateExposesNothing ==
    [][(ret'.op = "Generate" /\ ret'.err # "") => a' = a]_vars

====
